---- MODULE Spec2Model ----
(***************************************************************************)
(* Model of the logging facade of src/logger.go: the MyLogger value, the   *)
(* process-wide singleton (mylog, isInit), InitLogger, the With* forks and *)
(* the instance and package-level emit functions.                          *)
(*                                                                         *)
(* Text is a sequence of string tokens; a path and a severity name are     *)
(* sequences of tokens too, so that splitting, lower-casing and the        *)
(* last-byte test are computed, not assumed.                               *)
(***************************************************************************)
EXTENDS Integers, Sequences, FiniteSets, Bags

VARIABLES isInit, mylog, slots, arrays, maps, alive, last, race

vars == <<isInit, mylog, slots, arrays, maps, alive, last, race>>

(* ------------------------------------------------------------------ *)
(* Bounds                                                             *)
(* ------------------------------------------------------------------ *)
MaxPrefixLen == 4
MaxCtx == 2

\* the variables in which the calling program keeps Logger instances
HandleSeq == <<"p", "q">>

Handles == {HandleSeq[k] : k \in DOMAIN HandleSeq}

(* ------------------------------------------------------------------ *)
(* Level (src/logger.go:73-95) and the backend's severities           *)
(* ------------------------------------------------------------------ *)
PanicLevel == 0
FatalLevel == 1
ErrorLevel == 2
WarnLevel == 3
InfoLevel == 4
DebugLevel == 5
TraceLevel == 6

ZapDebug == -1
ZapInfo == 0
ZapWarn == 1
ZapError == 2
ZapPanic == 4
ZapFatal == 5

(* ------------------------------------------------------------------ *)
(* Text helpers                                                       *)
(* ------------------------------------------------------------------ *)
Last(s) == s[Len(s)]

Digit == <<"0", "1", "2", "3", "4", "5", "6", "7", "8", "9">>

\* %d of a non-negative integer
RECURSIVE Itoa(_)
Itoa(n) == IF n < 10 THEN <<Digit[n + 1]>>
           ELSE Itoa(n \div 10) \o <<Digit[(n % 10) + 1]>>

UpperChars == <<"A", "B", "C", "D", "E", "F", "G", "H", "I", "J", "K", "L", "M",
                "N", "O", "P", "Q", "R", "S", "T", "U", "V", "W", "X", "Y", "Z">>
LowerChars == <<"a", "b", "c", "d", "e", "f", "g", "h", "i", "j", "k", "l", "m",
                "n", "o", "p", "q", "r", "s", "t", "u", "v", "w", "x", "y", "z">>

LowerChar(c) ==
    IF \E i \in DOMAIN UpperChars : UpperChars[i] = c
    THEN LowerChars[CHOOSE i \in DOMAIN UpperChars : UpperChars[i] = c]
    ELSE c

\* strings.ToLower
ToLower(s) == [i \in DOMAIN s |-> LowerChar(s[i])]

\* strings.Split(path, "/"): the segments between the separators
RECURSIVE SplitFrom(_, _)
SplitFrom(p, cur) ==
    IF p = <<>> THEN <<cur>>
    ELSE IF Head(p) = "/" THEN <<cur>> \o SplitFrom(Tail(p), <<>>)
    ELSE SplitFrom(Tail(p), cur \o <<Head(p)>>)

Split(p) == SplitFrom(p, <<>>)

\* strings.Join(segs, sep)
RECURSIVE Join(_, _)
Join(segs, sep) ==
    IF segs = <<>> THEN <<>>
    ELSE IF Len(segs) = 1 THEN <<segs[1]>>
    ELSE <<segs[1], sep>> \o Join(Tail(segs), sep)

(* ------------------------------------------------------------------ *)
(* Values handed to the emit functions, and fmt                       *)
(* ------------------------------------------------------------------ *)
StrV(t) == [isStr |-> TRUE, t |-> t]
IntV(t) == [isStr |-> FALSE, t |-> t]

TypeName(v) == IF v.isStr THEN "string" ELSE "int"

\* fmt.Sprint: a space between two operands when neither is a string
RECURSIVE Sprint(_)
Sprint(args) ==
    IF args = <<>> THEN <<>>
    ELSE IF Len(args) = 1 THEN <<args[1].t>>
    ELSE IF ~args[1].isStr /\ ~args[2].isStr
         THEN <<args[1].t, " ">> \o Sprint(Tail(args))
         ELSE <<args[1].t>> \o Sprint(Tail(args))

\* fmt.Sprintln without the line break: a space between all operands
RECURSIVE SpaceJoined(_)
SpaceJoined(args) ==
    IF args = <<>> THEN <<>>
    ELSE IF Len(args) = 1 THEN <<args[1].t>>
    ELSE <<args[1].t, " ">> \o SpaceJoined(Tail(args))

Sprintln(args) == SpaceJoined(args) \o <<"\n">>

RECURSIVE ExtraList(_)
ExtraList(args) ==
    IF args = <<>> THEN <<>>
    ELSE IF Len(args) = 1 THEN <<TypeName(args[1]), "=", args[1].t>>
    ELSE <<TypeName(args[1]), "=", args[1].t, ", ">> \o ExtraList(Tail(args))

\* fmt.Sprintf: each verb token takes the next operand
RECURSIVE Sprintf(_, _)
Sprintf(format, args) ==
    IF format = <<>>
    THEN IF args = <<>> THEN <<>>
         ELSE <<"%!(EXTRA ">> \o ExtraList(args) \o <<")">>
    ELSE IF Head(format) = "%v"
         THEN IF args = <<>>
              THEN <<"%!v(MISSING)">> \o Sprintf(Tail(format), args)
              ELSE <<Head(args).t>> \o Sprintf(Tail(format), Tail(args))
         ELSE <<Head(format)>> \o Sprintf(Tail(format), args)

(* ------------------------------------------------------------------ *)
(* Inputs                                                             *)
(* ------------------------------------------------------------------ *)
LevelNames ==
    { <<"t", "r", "a", "c", "e">>, <<"D", "e", "b", "u", "g">>,
      <<"i", "n", "f", "o">>, <<"W", "A", "R", "N">>,
      <<"e", "r", "r", "o", "r">>, <<>>,
      <<"w", "a", "r", "n", "i", "n", "g">> }

PathNames == { <<>>, <<"/", "var", "/", "log", "/">>, <<"/", "tmp">> }

RotationSets ==
    { [MaxSize |-> 0, MaxBackups |-> 3, MaxAge |-> 0, EnableCompress |-> 1] }

\* LoggerConfig (src/logger.go:339-348)
LoggerConfig ==
    { [Level |-> lv, Path |-> pa, LogName |-> "app", MaxSize |-> ro.MaxSize,
       MaxBackups |-> ro.MaxBackups, MaxAge |-> ro.MaxAge,
       EnableCompress |-> ro.EnableCompress, CodeLine |-> cl] :
      lv \in LevelNames, pa \in PathNames, ro \in RotationSets, cl \in {0, 1} }

NoConfig ==
    [Level |-> <<>>, Path |-> <<>>, LogName |-> "", MaxSize |-> 0,
     MaxBackups |-> 0, MaxAge |-> 0, EnableCompress |-> 0, CodeLine |-> 0]

\* call sites of the application: file and line of the calling statement
Sites == { [file |-> <<"/", "app", "/", "svc", "/", "run.go">>, line |-> 42] }

NoSite == [file |-> <<>>, line |-> 0]

ArgLists == { <<StrV("x")>>, <<StrV("x"), IntV("7")>> }

\* a template and its operands
FormatCalls ==
    { [format |-> <<"done">>, args |-> <<>>],
      [format |-> <<"n=", "%v">>, args |-> <<IntV("7")>>] }

PrefixNames == {"x", "y"}

SectionNames == {"s"}

FieldKeys == {"j", "k"}

FieldVals == {"1", "2"}

\* the maps a caller builds: the empty one and those of one key
FieldMaps ==
    UNION { [ks -> FieldVals] : ks \in { s \in SUBSET FieldKeys : Cardinality(s) <= 1 } }

(* ------------------------------------------------------------------ *)
(* State: the backend handle, slices, MyLogger                        *)
(* ------------------------------------------------------------------ *)
NArrays == Cardinality(Handles) + 2
NMaps == Cardinality(Handles) + 2

NilSink == [Filename |-> <<>>, MaxSize |-> 0, MaxBackups |-> 0, MaxAge |-> 0,
            Compress |-> FALSE]

\* a nil *zap.Logger
NilLog == [ok |-> FALSE, min |-> 0, sink |-> NilSink, name |-> <<>>,
           ctx |-> EmptyBag]

\* a nil []string
NilSlice == [arr |-> 0, len |-> 0, cap |-> 0]

\* the zero value of MyLogger (src/logger.go:116-122); cfg is history, not
\* a field of the struct: the configuration that built the instance's root
ZeroLogger == [log |-> NilLog, level |-> 0, prefix |-> NilSlice, fields |-> 0,
               codeLine |-> FALSE, cfg |-> NoConfig]

EmptySlot == [used |-> FALSE, l |-> ZeroLogger]

Blank ==
    [op |-> "none", recv |-> "", kept |-> "", format |-> <<>>, args |-> <<>>,
     site |-> NoSite, line |-> 0, cfg |-> NoConfig, exists |-> FALSE, stdout |-> <<>>,
     warned |-> FALSE, handed |-> <<>>, rec |-> <<>>,
     given |-> <<>>, name |-> "", ret |-> 0, outcome |-> "return"]

\* an InitLogger call and a logging call running at the same time: where
\* each is, the configuration of the one, what the other has read, and
\* the singleton as it was before InitLogger stored the new one
NoRace ==
    [w |-> "idle", cfg |-> NoConfig, before |-> ZeroLogger,
     r |-> "idle", sawInit |-> FALSE]

\* the elements a slice shows
SliceElems(heap, s) ==
    IF s.arr = 0 THEN <<>> ELSE SubSeq(heap[s.arr], 1, s.len)

\* the array and the map each live instance refers to, the singleton first
ArrayRefSeq(ml, sl) ==
    <<ml.prefix.arr>> \o [k \in DOMAIN HandleSeq |-> sl[HandleSeq[k]].l.prefix.arr]

MapRefSeq(ml, sl) ==
    <<ml.fields>> \o [k \in DOMAIN HandleSeq |-> sl[HandleSeq[k]].l.fields]

Range(f) == {f[k] : k \in DOMAIN f}

\* a fresh cell: the first one no live instance refers to
FreeCell(n, used) == CHOOSE a \in 1..n :
    a \notin used /\ \A b \in 1..n : b \notin used => a <= b

FreeArray == FreeCell(NArrays, Range(ArrayRefSeq(mylog, slots)))

FreeMap == FreeCell(NMaps, Range(MapRefSeq(mylog, slots)))

\* Addresses are not observable: a state is kept with its live cells
\* numbered in the order the instances refer to them, with the cells no
\* instance refers to empty, and with the array elements beyond the
\* longest slice on the array blank (append writes such an element before
\* any slice shows it).
NewId(refs, a) ==
    IF a = 0 THEN 0
    ELSE LET first == CHOOSE k \in DOMAIN refs :
                 refs[k] = a /\ \A m \in 1..(k - 1) : refs[m] # a
         IN Cardinality({refs[m] : m \in 1..first} \ {0})

Relocated(heap, refs, n) ==
    [k \in 1..n |->
        IF \E a \in Range(refs) \ {0} : NewId(refs, a) = k
        THEN heap[CHOOSE a \in Range(refs) \ {0} : NewId(refs, a) = k]
        ELSE <<>>]

Max(S) == CHOOSE x \in S : \A y \in S : y <= x

LiveLen(ml, sl, a) ==
    Max({0} \cup {IF ml.prefix.arr = a THEN ml.prefix.len ELSE 0}
            \cup {IF sl[h].l.prefix.arr = a THEN sl[h].l.prefix.len ELSE 0 :
                  h \in Handles})

Trimmed(heap, ml, sl) ==
    [a \in DOMAIN heap |->
        [k \in DOMAIN heap[a] |->
            IF k <= LiveLen(ml, sl, a) THEN heap[a][k] ELSE ""]]

Moved(l, arefs, mrefs) ==
    [l EXCEPT !.prefix.arr = NewId(arefs, @), !.fields = NewId(mrefs, @)]

\* the next state holds singleton ml, handles sl and heaps ah and mh
Settle(ml, sl, ah, mh) ==
    LET arefs == ArrayRefSeq(ml, sl)
        mrefs == MapRefSeq(ml, sl)
    IN
    /\ mylog' = Moved(ml, arefs, mrefs)
    /\ slots' = [h \in Handles |-> [sl[h] EXCEPT !.l = Moved(@, arefs, mrefs)]]
    /\ arrays' = Relocated(Trimmed(ah, ml, sl), arefs, NArrays)
    /\ maps' = Relocated(mh, mrefs, NMaps)

Init ==
    /\ isInit = FALSE
    /\ mylog = ZeroLogger
    /\ slots = [i \in Handles |-> EmptySlot]
    /\ arrays = [a \in 1..NArrays |-> <<>>]
    /\ maps = [m \in 1..NMaps |-> <<>>]
    /\ alive = TRUE
    /\ last = Blank
    /\ race = NoRace

(* ------------------------------------------------------------------ *)
(* InitLogger (src/logger.go:350-442)                                 *)
(* ------------------------------------------------------------------ *)
\* os.Stat never succeeds on the empty path
LogPathExists(path, present) == path # <<>> /\ present

\* lines 351-358
ChosenPath(cfg, accessible) ==
    IF accessible THEN <<".", "/">> ELSE cfg.Path

\* lines 359-361
TrimSlash(logPath) ==
    IF Last(logPath) = "/" THEN SubSeq(logPath, 1, Len(logPath) - 1)
    ELSE logPath

\* lines 363-393
SinkOf(cfg, logPath) ==
    [Filename |-> logPath \o <<"/", cfg.LogName, ".log">>,
     MaxSize |-> IF cfg.MaxSize = 0 THEN 100 ELSE cfg.MaxSize,
     MaxBackups |-> IF cfg.MaxBackups = 0 THEN 10 ELSE cfg.MaxBackups,
     MaxAge |-> IF cfg.MaxAge = 0 THEN 7 ELSE cfg.MaxAge,
     Compress |-> (cfg.EnableCompress = 1)]

\* the facade level of a name compared as it is written
MyLevelOf_CaseSensitive(name) ==
    IF name = <<"t", "r", "a", "c", "e">> THEN TraceLevel
    ELSE IF name = <<"d", "e", "b", "u", "g">> THEN DebugLevel
    ELSE IF name = <<"w", "a", "r", "n">> THEN WarnLevel
    ELSE IF name = <<"i", "n", "f", "o">> THEN InfoLevel
    ELSE IF name = <<"e", "r", "r", "o", "r">> THEN ErrorLevel
    ELSE TraceLevel

\* lines 409-429: the facade level
MyLevelOf(name) ==
    LET n == ToLower(name) IN
    IF n = <<"t", "r", "a", "c", "e">> THEN TraceLevel
    ELSE IF n = <<"d", "e", "b", "u", "g">> THEN DebugLevel
    ELSE IF n = <<"w", "a", "r", "n">> THEN WarnLevel
    ELSE IF n = <<"i", "n", "f", "o">> THEN InfoLevel
    ELSE IF n = <<"e", "r", "r", "o", "r">> THEN ErrorLevel
    ELSE TraceLevel

\* the backend's minimum severity with the warn and info cases exchanged
ZapLevelOf_WarnInfoSwapped(name) ==
    LET n == ToLower(name) IN
    IF n = <<"t", "r", "a", "c", "e">> THEN ZapDebug
    ELSE IF n = <<"d", "e", "b", "u", "g">> THEN ZapDebug
    ELSE IF n = <<"w", "a", "r", "n">> THEN ZapInfo
    ELSE IF n = <<"i", "n", "f", "o">> THEN ZapWarn
    ELSE IF n = <<"e", "r", "r", "o", "r">> THEN ZapError
    ELSE ZapInfo

\* lines 409-429: the backend's minimum severity
ZapLevelOf(name) ==
    LET n == ToLower(name) IN
    IF n = <<"t", "r", "a", "c", "e">> THEN ZapDebug
    ELSE IF n = <<"d", "e", "b", "u", "g">> THEN ZapDebug
    ELSE IF n = <<"w", "a", "r", "n">> THEN ZapWarn
    ELSE IF n = <<"i", "n", "f", "o">> THEN ZapInfo
    ELSE IF n = <<"e", "r", "r", "o", "r">> THEN ZapError
    ELSE ZapInfo

\* a root that takes its levels from the configuration only the first
\* time, and from the singleton in place afterwards
Assembled_LevelsOnce(cfg, logPath, fresh) ==
    [log |-> [ok |-> TRUE,
              min |-> IF isInit THEN mylog.log.min ELSE ZapLevelOf(cfg.Level),
              sink |-> SinkOf(cfg, TrimSlash(logPath)),
              name |-> <<>>, ctx |-> EmptyBag],
     level |-> IF isInit THEN mylog.level ELSE MyLevelOf(cfg.Level),
     prefix |-> NilSlice,
     fields |-> fresh,
     codeLine |-> (cfg.CodeLine # 0),
     cfg |-> cfg]

\* lines 435-440: the root instance, its map in cell fresh
Assembled(cfg, logPath, fresh) ==
    [log |-> [ok |-> TRUE, min |-> ZapLevelOf(cfg.Level),
              sink |-> SinkOf(cfg, TrimSlash(logPath)),
              name |-> <<>>, ctx |-> EmptyBag],
     level |-> MyLevelOf(cfg.Level),
     prefix |-> NilSlice,
     fields |-> fresh,
     codeLine |-> (cfg.CodeLine # 0),
     cfg |-> cfg]

InitLoggerWith(cfg, present) ==
    LET accessible == LogPathExists(cfg.Path, present)
        chosen == ChosenPath(cfg, accessible)
        called == [Blank EXCEPT !.op = "InitLogger", !.cfg = cfg,
                                !.exists = accessible, !.warned = accessible]
    IN
    /\ alive
    /\ IF chosen = <<>>
       THEN \* logPath[len(logPath)-1:] on an empty string panics
            /\ last' = [called EXCEPT !.outcome = "crash"]
            /\ UNCHANGED <<isInit, mylog, slots, arrays, maps, alive, race>>
       ELSE LET fresh == FreeMap
                nl == Assembled(cfg, chosen, fresh)
            IN
            /\ Settle(nl, slots, arrays, [maps EXCEPT ![fresh] = <<>>])
            /\ isInit' = TRUE
            /\ last' = called
            /\ UNCHANGED <<alive, race>>

\* a call with a configuration of cfgs, the directory being there or not
InitLoggerFrom(cfgs, presents) == \E cfg \in cfgs, present \in presents :
    InitLoggerWith(cfg, present)

InitLogger == InitLoggerFrom(LoggerConfig, BOOLEAN)

\* GetMyLogger (src/logger.go:335-337): the caller keeps a copy of mylog
GetMyLoggerInto(S) == \E i \in S :
    /\ alive
    /\ Settle(mylog, [slots EXCEPT ![i] = [used |-> TRUE, l |-> mylog]],
              arrays, maps)
    /\ last' = [Blank EXCEPT !.op = "GetMyLogger", !.kept = i]
    /\ UNCHANGED <<isInit, alive, race>>

(* ------------------------------------------------------------------ *)
(* Source-location tagging (src/logger.go:131-162)                    *)
(* ------------------------------------------------------------------ *)
LoggerFile == <<"/", "src", "/", "logger", "/", "logger.go">>

\* the frames runtime.Caller sees from inside a helper that the emit
\* function at `line` of logger.go called on behalf of `site`
CallStack(helperLine, line, site) ==
    << [file |-> LoggerFile, line |-> helperLine],
       [file |-> LoggerFile, line |-> line],
       site >>

\* runtime.Caller(skip)
Caller(stack, skip) == stack[skip + 1]

\* fmt.Sprintf("[%s:%d] ", fileList[len(fileList)-1], line) for Caller(2)
CodeInfo(stack) ==
    LET fr == Caller(stack, 2)
        fileList == Split(fr.file)
    IN <<"[">> \o Last(fileList) \o <<":">> \o Itoa(fr.line) \o <<"] ">>

\* func (l MyLogger) addCodeInfo: r stays the empty string unless codeLine
MyLogger_addCodeInfo(l, format, line, site) ==
    IF l.codeLine
    THEN CodeInfo(CallStack(134, line, site)) \o format
    ELSE <<>>

\* func (l MyLogger) appendCodeInfo: r is the caller's slice, captured
\* before the marker is put in front of the local args; nil unless codeLine
MyLogger_appendCodeInfo(l, args, line, site) ==
    IF l.codeLine
    THEN LET r == args
             local == <<StrV(CodeInfo(CallStack(143, line, site)))>> \o <<args>>
         IN r
    ELSE <<>>

\* func addCodeInfo: always tags
addCodeInfo(format, line, site) ==
    CodeInfo(CallStack(151, line, site)) \o format

(* ------------------------------------------------------------------ *)
(* The backend: zap's SugaredLogger on a core with a minimum severity *)
(* ------------------------------------------------------------------ *)
NoOutput ==
    [stdout |-> <<>>, handed |-> <<>>, rec |-> <<>>, outcome |-> "return"]

Stdout(text) ==
    [stdout |-> text, handed |-> <<>>, rec |-> <<>>, outcome |-> "return"]

\* the message of Info(args...) (template empty) and Infof(template, args...)
getMessage(template, fmtArgs) ==
    IF fmtArgs = <<>> THEN template
    ELSE IF template # <<>> THEN Sprintf(template, fmtArgs)
    ELSE IF Len(fmtArgs) = 1 /\ fmtArgs[1].isStr THEN <<fmtArgs[1].t>>
    ELSE Sprint(fmtArgs)

\* the core writes an entry at or above its minimum severity
Enabled(log, lvl) == lvl >= log.min

\* l.log.Sugar().<Tier>(...): a nil logger is dereferenced; an entry
\* below the minimum is dropped; Panic and Fatal write and then panic or
\* exit.  handed is what the call gave the backend.
Sugar(log, lvl, template, fmtArgs) ==
    IF ~log.ok
    THEN [stdout |-> <<>>, handed |-> <<>>, rec |-> <<>>, outcome |-> "crash"]
    ELSE [stdout |-> <<>>,
          handed |-> << [template |-> template, args |-> fmtArgs] >>,
          rec |-> IF Enabled(log, lvl)
                  THEN << [lvl |-> lvl, msg |-> getMessage(template, fmtArgs),
                           name |-> log.name, ctx |-> log.ctx,
                           sink |-> log.sink] >>
                  ELSE <<>>,
          outcome |-> IF ~Enabled(log, lvl) THEN "return"
                      ELSE IF lvl = ZapPanic THEN "panic"
                      ELSE IF lvl = ZapFatal THEN "exit" ELSE "return"]

\* the call returns (or does not) and leaves the facade's state alone
Emitted(op, recv, format, args, line, site, res) ==
    /\ alive
    /\ last' = [Blank EXCEPT !.op = op, !.recv = recv, !.format = format,
                             !.args = args, !.line = line, !.site = site,
                             !.stdout = res.stdout, !.rec = res.rec,
                             !.handed = res.handed,
                             !.outcome = res.outcome]
    /\ alive' = (res.outcome # "exit")
    /\ UNCHANGED <<isInit, mylog, slots, arrays, maps, race>>

(* ------------------------------------------------------------------ *)
(* Bodies of the emit methods of MyLogger (src/logger.go:124-279)     *)
(* ------------------------------------------------------------------ *)
\* Println, Debug, Info, Warn, Error, Panic, Fatal
MethodBody(l, lvl, args, line, site) ==
    IF isInit
    THEN Sugar(l.log, lvl, <<>>, MyLogger_appendCodeInfo(l, args, line, site))
    ELSE Stdout(Sprintln(args))

\* Printf, Debugf, Infof, Warnf, Errorf, Panicf, Fatalf
MethodBodyf(l, lvl, format, args, line, site) ==
    IF isInit
    THEN Sugar(l.log, lvl, MyLogger_addCodeInfo(l, format, line, site), args)
    ELSE Stdout(Sprintf(MyLogger_addCodeInfo(l, format, line + 2, site)
                        \o <<"\r\n">>, args))

\* Trace
MethodTraceBody(l, args, line, site) ==
    IF isInit
    THEN IF l.level = TraceLevel
         THEN Sugar(l.log, ZapDebug, <<>>,
                    MyLogger_appendCodeInfo(l, args, line, site))
         ELSE NoOutput
    ELSE Stdout(Sprintln(args))

\* Tracef
MethodTracefBody(l, format, args, line, site) ==
    IF isInit
    THEN IF l.level = TraceLevel
         THEN Sugar(l.log, ZapDebug,
                    MyLogger_addCodeInfo(l, format, line, site), args)
         ELSE NoOutput
    ELSE Stdout(Sprintf(MyLogger_addCodeInfo(l, format, line + 3, site)
                        \o <<"\r\n">>, args))

\* Print: the arguments go to the backend as they are
MethodPrintBody(l, args) ==
    IF isInit THEN Sugar(l.log, ZapInfo, <<>>, args)
    ELSE Stdout(Sprintln(args))

(* ------------------------------------------------------------------ *)
(* Bodies of the package-level functions (src/logger.go:452-576)      *)
(* ------------------------------------------------------------------ *)
\* Print, Debug, Info, Warn, Error, Panic, Fatal
FuncBody(lvl, args, line, site) ==
    IF isInit
    THEN Sugar(mylog.log, lvl, <<>>,
               MyLogger_appendCodeInfo(mylog, args, line, site))
    ELSE Stdout(Sprintln(args))

\* Printf, Debugf, Infof, Warnf, Errorf, Panicf, Fatalf
FuncBodyf(lvl, format, args, line, site) ==
    IF isInit
    THEN Sugar(mylog.log, lvl,
               MyLogger_addCodeInfo(mylog, format, line, site), args)
    ELSE Stdout(Sprintf(addCodeInfo(format, line + 2, site) \o <<"\r\n">>,
                        args))

\* Println: the fallback is fmt.Print
FuncPrintlnBody(args, line, site) ==
    IF isInit
    THEN Sugar(mylog.log, ZapInfo, <<>>,
               MyLogger_appendCodeInfo(mylog, args, line, site))
    ELSE Stdout(Sprint(args))

\* Trace without the test of the level
FuncTraceBody_Ungated(args, line, site) ==
    IF isInit
    THEN Sugar(mylog.log, ZapDebug, <<>>,
               MyLogger_appendCodeInfo(mylog, args, line, site))
    ELSE Stdout(Sprintln(args))

\* Trace
FuncTraceBody(args, line, site) ==
    IF isInit
    THEN IF mylog.level = TraceLevel
         THEN Sugar(mylog.log, ZapDebug, <<>>,
                    MyLogger_appendCodeInfo(mylog, args, line, site))
         ELSE NoOutput
    ELSE Stdout(Sprintln(args))

\* Tracef
FuncTracefBody(format, args, line, site) ==
    IF isInit
    THEN IF mylog.level = TraceLevel
         THEN Sugar(mylog.log, ZapDebug,
                    MyLogger_addCodeInfo(mylog, format, line, site), args)
         ELSE NoOutput
    ELSE Stdout(Sprintf(addCodeInfo(format, line + 3, site) \o <<"\r\n">>,
                        args))

(* ------------------------------------------------------------------ *)
(* The emit methods, called on an instance the caller holds           *)
(* ------------------------------------------------------------------ *)
\* the slots the emit-side specification calls methods on
EmitSlots == {"p"}

MyLogger_Print(S) == \E i \in S, args \in ArgLists, site \in Sites :
    /\ slots[i].used
    /\ Emitted("Print", i, <<>>, args, 126, site,
               MethodPrintBody(slots[i].l, args))

MyLogger_Printf(S) == \E i \in S, c \in FormatCalls, site \in Sites :
    /\ slots[i].used
    /\ Emitted("Printf", i, c.format, c.args, 165, site,
               MethodBodyf(slots[i].l, ZapInfo, c.format, c.args, 165, site))

MyLogger_Println(S) == \E i \in S, args \in ArgLists, site \in Sites :
    /\ slots[i].used
    /\ Emitted("Println", i, <<>>, args, 172, site,
               MethodBody(slots[i].l, ZapInfo, args, 172, site))

MyLogger_Trace(S) == \E i \in S, args \in ArgLists, site \in Sites :
    /\ slots[i].used
    /\ Emitted("Trace", i, <<>>, args, 180, site,
               MethodTraceBody(slots[i].l, args, 180, site))

MyLogger_Tracef(S) == \E i \in S, c \in FormatCalls, site \in Sites :
    /\ slots[i].used
    /\ Emitted("Tracef", i, c.format, c.args, 189, site,
               MethodTracefBody(slots[i].l, c.format, c.args, 189, site))

MyLogger_Debug(S) == \E i \in S, args \in ArgLists, site \in Sites :
    /\ slots[i].used
    /\ Emitted("Debug", i, <<>>, args, 198, site,
               MethodBody(slots[i].l, ZapDebug, args, 198, site))

MyLogger_Debugf(S) == \E i \in S, c \in FormatCalls, site \in Sites :
    /\ slots[i].used
    /\ Emitted("Debugf", i, c.format, c.args, 205, site,
               MethodBodyf(slots[i].l, ZapDebug, c.format, c.args, 205, site))

MyLogger_Info(S) == \E i \in S, args \in ArgLists, site \in Sites :
    /\ slots[i].used
    /\ Emitted("Info", i, <<>>, args, 212, site,
               MethodBody(slots[i].l, ZapInfo, args, 212, site))

MyLogger_Infof(S) == \E i \in S, c \in FormatCalls, site \in Sites :
    /\ slots[i].used
    /\ Emitted("Infof", i, c.format, c.args, 219, site,
               MethodBodyf(slots[i].l, ZapInfo, c.format, c.args, 219, site))

MyLogger_Warn(S) == \E i \in S, args \in ArgLists, site \in Sites :
    /\ slots[i].used
    /\ Emitted("Warn", i, <<>>, args, 226, site,
               MethodBody(slots[i].l, ZapWarn, args, 226, site))

MyLogger_Warnf(S) == \E i \in S, c \in FormatCalls, site \in Sites :
    /\ slots[i].used
    /\ Emitted("Warnf", i, c.format, c.args, 233, site,
               MethodBodyf(slots[i].l, ZapWarn, c.format, c.args, 233, site))

MyLogger_Panic(S) == \E i \in S, args \in ArgLists, site \in Sites :
    /\ slots[i].used
    /\ Emitted("Panic", i, <<>>, args, 240, site,
               MethodBody(slots[i].l, ZapPanic, args, 240, site))

MyLogger_Panicf(S) == \E i \in S, c \in FormatCalls, site \in Sites :
    /\ slots[i].used
    /\ Emitted("Panicf", i, c.format, c.args, 247, site,
               MethodBodyf(slots[i].l, ZapPanic, c.format, c.args, 247, site))

MyLogger_Fatal(S) == \E i \in S, args \in ArgLists, site \in Sites :
    /\ slots[i].used
    /\ Emitted("Fatal", i, <<>>, args, 254, site,
               MethodBody(slots[i].l, ZapFatal, args, 254, site))

MyLogger_Error(S) == \E i \in S, args \in ArgLists, site \in Sites :
    /\ slots[i].used
    /\ Emitted("Error", i, <<>>, args, 261, site,
               MethodBody(slots[i].l, ZapError, args, 261, site))

MyLogger_Errorf(S) == \E i \in S, c \in FormatCalls, site \in Sites :
    /\ slots[i].used
    /\ Emitted("Errorf", i, c.format, c.args, 268, site,
               MethodBodyf(slots[i].l, ZapError, c.format, c.args, 268, site))

MyLogger_Fatalf(S) == \E i \in S, c \in FormatCalls, site \in Sites :
    /\ slots[i].used
    /\ Emitted("Fatalf", i, c.format, c.args, 275, site,
               MethodBodyf(slots[i].l, ZapFatal, c.format, c.args, 275, site))

(* ------------------------------------------------------------------ *)
(* The package-level functions                                        *)
(* ------------------------------------------------------------------ *)

Pkg_Print == \E args \in ArgLists, site \in Sites :
    Emitted("Print", "pkg", <<>>, args, 454, site,
            FuncBody(ZapInfo, args, 454, site))

Printf == \E c \in FormatCalls, site \in Sites :
    Emitted("Printf", "pkg", c.format, c.args, 461, site,
            FuncBodyf(ZapInfo, c.format, c.args, 461, site))

Println == \E args \in ArgLists, site \in Sites :
    Emitted("Println", "pkg", <<>>, args, 468, site,
            FuncPrintlnBody(args, 468, site))

Trace == \E args \in ArgLists, site \in Sites :
    Emitted("Trace", "pkg", <<>>, args, 477, site,
            FuncTraceBody(args, 477, site))

Tracef == \E c \in FormatCalls, site \in Sites :
    Emitted("Tracef", "pkg", c.format, c.args, 486, site,
            FuncTracefBody(c.format, c.args, 486, site))

Debug == \E args \in ArgLists, site \in Sites :
    Emitted("Debug", "pkg", <<>>, args, 495, site,
            FuncBody(ZapDebug, args, 495, site))

Debugf == \E c \in FormatCalls, site \in Sites :
    Emitted("Debugf", "pkg", c.format, c.args, 502, site,
            FuncBodyf(ZapDebug, c.format, c.args, 502, site))

Info == \E args \in ArgLists, site \in Sites :
    Emitted("Info", "pkg", <<>>, args, 509, site,
            FuncBody(ZapInfo, args, 509, site))

Infof == \E c \in FormatCalls, site \in Sites :
    Emitted("Infof", "pkg", c.format, c.args, 516, site,
            FuncBodyf(ZapInfo, c.format, c.args, 516, site))

Warn == \E args \in ArgLists, site \in Sites :
    Emitted("Warn", "pkg", <<>>, args, 523, site,
            FuncBody(ZapWarn, args, 523, site))

Warnf == \E c \in FormatCalls, site \in Sites :
    Emitted("Warnf", "pkg", c.format, c.args, 530, site,
            FuncBodyf(ZapWarn, c.format, c.args, 530, site))

Panic == \E args \in ArgLists, site \in Sites :
    Emitted("Panic", "pkg", <<>>, args, 537, site,
            FuncBody(ZapPanic, args, 537, site))

Panicf == \E c \in FormatCalls, site \in Sites :
    Emitted("Panicf", "pkg", c.format, c.args, 544, site,
            FuncBodyf(ZapPanic, c.format, c.args, 544, site))

Error == \E args \in ArgLists, site \in Sites :
    Emitted("Error", "pkg", <<>>, args, 551, site,
            FuncBody(ZapError, args, 551, site))

Errorf == \E c \in FormatCalls, site \in Sites :
    Emitted("Errorf", "pkg", c.format, c.args, 558, site,
            FuncBodyf(ZapError, c.format, c.args, 558, site))

Fatal == \E args \in ArgLists, site \in Sites :
    Emitted("Fatal", "pkg", <<>>, args, 565, site,
            FuncBody(ZapFatal, args, 565, site))

Fatalf == \E c \in FormatCalls, site \in Sites :
    Emitted("Fatalf", "pkg", c.format, c.args, 572, site,
            FuncBodyf(ZapFatal, c.format, c.args, 572, site))

UnformattedOps ==
    {"Print", "Println", "Trace", "Debug", "Info", "Warn", "Error", "Fatal",
     "Panic"}

FormattedOps ==
    {"Printf", "Tracef", "Debugf", "Infof", "Warnf", "Errorf", "Fatalf",
     "Panicf"}

EmitOps == UnformattedOps \cup FormattedOps

(* ------------------------------------------------------------------ *)
(* Specification of configuration and emission                        *)
(* ------------------------------------------------------------------ *)
PackageEmit ==
    \/ Pkg_Print
    \/ Printf
    \/ Println
    \/ Trace
    \/ Tracef
    \/ Debug
    \/ Debugf
    \/ Info
    \/ Infof
    \/ Warn
    \/ Warnf
    \/ Panic
    \/ Panicf
    \/ Error
    \/ Errorf
    \/ Fatal
    \/ Fatalf

MethodEmit(S) ==
    \/ MyLogger_Print(S)
    \/ MyLogger_Printf(S)
    \/ MyLogger_Println(S)
    \/ MyLogger_Trace(S)
    \/ MyLogger_Tracef(S)
    \/ MyLogger_Debug(S)
    \/ MyLogger_Debugf(S)
    \/ MyLogger_Info(S)
    \/ MyLogger_Infof(S)
    \/ MyLogger_Warn(S)
    \/ MyLogger_Warnf(S)
    \/ MyLogger_Panic(S)
    \/ MyLogger_Panicf(S)
    \/ MyLogger_Fatal(S)
    \/ MyLogger_Error(S)
    \/ MyLogger_Errorf(S)
    \/ MyLogger_Fatalf(S)

\* the configurations of the emit-side specification: an existing directory
EmitConfigs == { c \in LoggerConfig : c.Path = <<"/", "tmp">> }

Next ==
    \/ InitLoggerFrom(EmitConfigs, {TRUE})
    \/ GetMyLoggerInto(EmitSlots)
    \/ PackageEmit
    \/ MethodEmit(EmitSlots)

Spec == Init /\ [][Next]_vars

(* ------------------------------------------------------------------ *)
(* Specification of configuration alone: every configuration, the     *)
(* directory present or absent, any number of times                   *)
(* ------------------------------------------------------------------ *)
NextInit == InitLogger

SpecInit == Init /\ [][NextInit]_vars

(* ------------------------------------------------------------------ *)
(* Accessors (src/logger.go:290-298, 318-320)                         *)
(* ------------------------------------------------------------------ *)
GetLevel(l) == l.level

\* Prefix(): the chain the slice shows, dot-joined
Prefix(heap, l) == Join(SliceElems(heap, l.prefix), ".")

\* Fields(): the instance's map, an empty one when it has none
Fields(heap, l) == IF l.fields = 0 THEN <<>> ELSE heap[l.fields]

(* ------------------------------------------------------------------ *)
(* The With* operations (src/logger.go:280-333)                       *)
(* ------------------------------------------------------------------ *)
\* the capacity append gives a slice that has to grow by one element
GrownCap(cap) == IF cap = 0 THEN 1 ELSE 2 * cap

Padded(elems, cap) == elems \o [k \in 1..(cap - Len(elems)) |-> ""]

\* a slice of the new element alone, the elements of s left behind
GoAppend_Restarted(heap, s, v, fresh) ==
    [slice |-> [arr |-> fresh, len |-> 1, cap |-> 1],
     heap |-> [heap EXCEPT ![fresh] = <<v>>]]

\* append(s, v): in place when the array has room, in a fresh array
\* otherwise; gives the new slice and the new heap
GoAppend(heap, s, v, fresh) ==
    IF s.len < s.cap
    THEN [slice |-> [s EXCEPT !.len = s.len + 1],
          heap |-> [heap EXCEPT ![s.arr][s.len + 1] = v]]
    ELSE [slice |-> [arr |-> fresh, len |-> s.len + 1, cap |-> GrownCap(s.cap)],
          heap |-> [heap EXCEPT ![fresh] =
                       Padded(SliceElems(heap, s) \o <<v>>, GrownCap(s.cap))]]

\* the fork failed on a nil backend and the caller got nothing
ForkCrashed(op, i) ==
    /\ last' = [Blank EXCEPT !.op = op, !.recv = i, !.outcome = "crash"]
    /\ UNCHANGED <<isInit, mylog, slots, arrays, maps, alive, race>>

\* the caller keeps the child nl in handle j; given and name are the
\* argument of the call, a map or a string
ForkKept(op, i, j, nl, newArrays, newMaps, given, name) ==
    /\ Settle(mylog, [slots EXCEPT ![j] = [used |-> TRUE, l |-> nl]],
              newArrays, newMaps)
    /\ last' = [Blank EXCEPT !.op = op, !.recv = i, !.kept = j,
                             !.given = given, !.name = name]
    /\ UNCHANGED <<isInit, alive, race>>

\* WithPrefix on an instance held in R, with a name of P, the child kept in D
WithPrefixInto(R, D, P) == \E i \in R, j \in D, prefix \in P :
    LET l == slots[i].l
        ap == GoAppend(arrays, l.prefix, prefix, FreeArray)
        nl == [l EXCEPT !.log.name = @ \o <<prefix>>, !.prefix = ap.slice]
    IN
    /\ alive
    /\ slots[i].used
    /\ l.prefix.len < MaxPrefixLen
    /\ IF ~l.log.ok THEN ForkCrashed("WithPrefix", i)
       ELSE ForkKept("WithPrefix", i, j, nl, ap.heap, maps, <<>>, prefix)

WithPrefix == WithPrefixInto(Handles, Handles, PrefixNames)

\* the structured attributes zap.Any(k, v) makes of a map
ZapFields(m) == SetToBag({<<k, m[k]>> : k \in DOMAIN m})

\* l.log.With(fs...): no attribute gives back the logger itself
ZapWith(log, fs) ==
    IF fs = EmptyBag THEN log ELSE [log EXCEPT !.ctx = @ (+) fs]

\* WithFields with a map of M the caller has just built
WithFieldsInto(R, D, M) == \E i \in R, j \in D, fields \in M :
    LET l == slots[i].l
        fs == ZapFields(fields)
        nl == [l EXCEPT !.log = ZapWith(l.log, fs), !.fields = FreeMap]
    IN
    /\ alive
    /\ slots[i].used
    /\ BagCardinality(l.log.ctx) + BagCardinality(fs) <= MaxCtx
    /\ IF fs # EmptyBag /\ ~l.log.ok THEN ForkCrashed("WithFields", i)
       ELSE ForkKept("WithFields", i, j, nl, arrays,
                     [maps EXCEPT ![FreeMap] = fields], fields, "")

WithFields == WithFieldsInto(Handles, Handles, FieldMaps)

\* WithFields with the map another instance's Fields() returned, as
\* AddFieldsFrom (src/logger.go:97-109) calls it
WithFieldsOf == \E i \in Handles, j \in Handles, k \in Handles :
    LET l == slots[i].l
        given == slots[k].l.fields
        gid == IF given = 0 THEN FreeMap ELSE given
        fs == ZapFields(Fields(maps, slots[k].l))
        nl == [l EXCEPT !.log = ZapWith(l.log, fs), !.fields = gid]
    IN
    /\ alive
    /\ slots[i].used /\ slots[k].used
    /\ BagCardinality(l.log.ctx) + BagCardinality(fs) <= MaxCtx
    /\ IF fs # EmptyBag /\ ~l.log.ok THEN ForkCrashed("WithFields", i)
       ELSE ForkKept("WithFields", i, j, nl, arrays,
                     IF given = 0 THEN [maps EXCEPT ![FreeMap] = <<>>]
                     ELSE maps,
                     Fields(maps, slots[k].l), "")

WithSectionInto(R, D, S) == \E i \in R, j \in D, sec \in S :
    LET l == slots[i].l
        nl == [l EXCEPT !.log.ctx = @ (+) SetToBag({<<"section", sec>>})]
    IN
    /\ alive
    /\ slots[i].used
    /\ BagCardinality(l.log.ctx) < MaxCtx
    /\ IF ~l.log.ok THEN ForkCrashed("WithSection", i)
       ELSE ForkKept("WithSection", i, j, nl, arrays, maps, <<>>, sec)

WithSection == WithSectionInto(Handles, Handles, SectionNames)

\* Section() is always the empty string
Section(l) == <<>>

(* ------------------------------------------------------------------ *)
(* Properties                                                         *)
(* ------------------------------------------------------------------ *)
\* the instance the last emit call ran on
Receiver == IF last.recv = "pkg" THEN mylog ELSE slots[last.recv].l

PackageCall(ops) == last.op \in ops /\ last.recv = "pkg"

\* the marker of a call site: its file's last path element and its line
SiteMarker(site) == <<"[", Last(site.file), ":">> \o Itoa(site.line) \o <<"] ">>

\* C1: before InitLogger has run, every package-level unformatted function
\* returns, leaves the backend alone and writes the caller's arguments,
\* space-joined and ended by a line break, to standard output.
C1_FallbackUnformatted ==
    (PackageCall(UnformattedOps) /\ ~isInit)
        => /\ last.outcome = "return"
           /\ last.handed = <<>> /\ last.rec = <<>>
           /\ last.stdout = SpaceJoined(last.args) \o <<"\n">>

\* C2: before InitLogger has run, every package-level formatted function
\* writes to standard output the printf substitution of the caller's
\* template with the caller's arguments, nothing before it and nothing
\* missing, ended by a line break.
C2_FallbackFormatted ==
    (PackageCall(FormattedOps) /\ ~isInit)
        => \/ last.stdout = Sprintf(last.format, last.args) \o <<"\r\n">>
           \/ last.stdout = Sprintf(last.format, last.args) \o <<"\n">>

\* C4: with source-location tagging disabled, an emit call after InitLogger
\* hands the backend exactly the caller's template and arguments.
C4_NoMarkerNothingLost ==
    (last.op \in EmitOps /\ isInit /\ last.handed # <<>>
        /\ ~Receiver.codeLine)
        => last.handed[1] = [template |-> last.format, args |-> last.args]

\* C5: with source-location tagging enabled, the message an emit call hands
\* the backend starts with the marker of the call's immediate caller and
\* continues with the caller's message or template.
C5_MarkerPrepended ==
    (last.op \in EmitOps /\ isInit /\ last.handed # <<>>
        /\ Receiver.codeLine)
        => LET h == last.handed[1] IN
           getMessage(h.template, h.args)
               = SiteMarker(last.site) \o getMessage(last.format, last.args)

Trace_ == <<"t", "r", "a", "c", "e">>
Debug_ == <<"d", "e", "b", "u", "g">>
Info_ == <<"i", "n", "f", "o">>
Warn_ == <<"w", "a", "r", "n">>
Error_ == <<"e", "r", "r", "o", "r">>

\* the severity name an instance's root was configured with, in lower case
ConfiguredName(l) == ToLower(l.cfg.Level)

\* the Level of the tier an emit function logs at
TierOf(op) ==
    IF op \in {"Debug", "Debugf"} THEN DebugLevel
    ELSE IF op \in {"Info", "Infof"} THEN InfoLevel
    ELSE IF op \in {"Warn", "Warnf"} THEN WarnLevel
    ELSE IF op \in {"Error", "Errorf"} THEN ErrorLevel
    ELSE IF op \in {"Fatal", "Fatalf"} THEN FatalLevel
    ELSE PanicLevel

\* the Level a severity name stands for
NamedLevel(n) ==
    IF n = Debug_ THEN DebugLevel
    ELSE IF n = Info_ THEN InfoLevel
    ELSE IF n = Warn_ THEN WarnLevel
    ELSE ErrorLevel

TierOps ==
    {"Debug", "Debugf", "Info", "Infof", "Warn", "Warnf", "Error", "Errorf",
     "Fatal", "Fatalf", "Panic", "Panicf"}

\* the last call was an emit call after InitLogger on the singleton or on
\* an instance that came from an installed singleton
ConfiguredCall(ops) == last.op \in ops /\ isInit /\ Receiver.log.ok

\* C6: after InitLogger a Trace or Tracef call produces a record only on an
\* instance whose level is exactly Trace; configured with debug, info, warn
\* or error it produces none, configured with trace it produces one record
\* at the backend's Debug tier.
C6_TraceOnlyAtTrace ==
    ConfiguredCall({"Trace", "Tracef"})
        => /\ last.rec # <<>> => GetLevel(Receiver) = TraceLevel
           /\ ConfiguredName(Receiver) \in {Debug_, Info_, Warn_, Error_}
                  => last.rec = <<>>
           /\ ConfiguredName(Receiver) = Trace_
                  => Len(last.rec) = 1 /\ last.rec[1].lvl = ZapDebug

C6_Witness ==
    /\ ConfiguredCall({"Trace", "Tracef"})
    /\ ConfiguredName(Receiver) = Trace_
    /\ Len(last.rec) = 1 /\ last.rec[1].lvl = ZapDebug

\* C7: configured with debug, info, warn or error, a call at tier Debug,
\* Info, Warn, Error, Fatal or Panic produces a record exactly when the
\* tier is at least as severe as the configured one.
C7_GatedBySeverity ==
    (ConfiguredCall(TierOps)
        /\ ConfiguredName(Receiver) \in {Debug_, Info_, Warn_, Error_})
        => (Len(last.rec) = 1
               <=> TierOf(last.op) <= NamedLevel(ConfiguredName(Receiver)))

C7_Witness ==
    /\ ConfiguredCall({"Warn"})
    /\ ConfiguredName(Receiver) = Warn_
    /\ Len(last.rec) = 1

\* the last call was an InitLogger call that installed a singleton
Installed == last.op = "InitLogger" /\ last.outcome = "return"

Recognised == {Trace_, Debug_, Info_, Warn_, Error_}

\* C8: a severity name that is none of trace, debug, info, warn, error in
\* any letter case installs a singleton gated at info: backend minimum
\* Info and GetLevel() = InfoLevel.
C8_UnknownNameIsInfo ==
    (Installed /\ ToLower(last.cfg.Level) \notin Recognised)
        => mylog.log.min = ZapInfo /\ GetLevel(mylog) = InfoLevel

\* C9: a recognised severity name, in any letter case, gives the pair
\* (facade level, backend minimum) of its tier, and GetLevel() on the
\* installed singleton returns that facade level.
C9_NameToLevels ==
    Installed =>
        LET n == ToLower(last.cfg.Level)
            pair == <<GetLevel(mylog), mylog.log.min>>
        IN /\ n = Trace_ => pair = <<TraceLevel, ZapDebug>>
           /\ n = Debug_ => pair = <<DebugLevel, ZapDebug>>
           /\ n = Info_ => pair = <<InfoLevel, ZapInfo>>
           /\ n = Warn_ => pair = <<WarnLevel, ZapWarn>>
           /\ n = Error_ => pair = <<ErrorLevel, ZapError>>

C9_Witness ==
    /\ Installed
    /\ last.cfg.Level = <<"W", "A", "R", "N">>
    /\ GetLevel(mylog) = WarnLevel

\* one trailing separator removed
WithoutTrailingSlash(path) ==
    IF path # <<>> /\ path[Len(path)] = "/"
    THEN SubSeq(path, 1, Len(path) - 1) ELSE path

\* C10: when the existence check succeeds the configured directory is used
\* as it is, less one trailing separator; only when it fails is the
\* current directory used, with a warning; the file is <dir>/<LogName>.log.
C10_PathResolution ==
    Installed =>
        LET dir == IF last.exists THEN WithoutTrailingSlash(last.cfg.Path)
                   ELSE <<".">>
        IN /\ mylog.log.sink.Filename = dir \o <<"/", last.cfg.LogName, ".log">>
           /\ last.warned = ~last.exists

(* ------------------------------------------------------------------ *)
(* Specification of forking: one configuration, instances kept in the *)
(* caller's handles and forked by WithPrefix                          *)
(* ------------------------------------------------------------------ *)
ForkConfigs ==
    { c \in LoggerConfig :
        c.Path = <<"/", "tmp">> /\ c.Level = <<"i", "n", "f", "o">>
        /\ c.CodeLine = 0 }

NextFork ==
    \/ InitLoggerFrom(ForkConfigs, {TRUE})
    \/ GetMyLoggerInto(Handles)
    \/ WithPrefix

SpecFork == Init /\ [][NextFork]_vars

\* the same with the operations that attach fields in place of WithPrefix
NextFields ==
    \/ InitLoggerFrom(ForkConfigs, {TRUE})
    \/ GetMyLoggerInto(Handles)
    \/ WithSection
    \/ WithFields
    \/ WithFieldsOf

SpecFields == Init /\ [][NextFields]_vars

\* C3: no With* operation changes what Prefix() and Fields() return for an
\* instance that already exists; a child forked by WithPrefix keeps its
\* last prefix element when a sibling is forked from the same parent.
C3_ForkLeavesOthersAlone ==
    [][\A h \in Handles :
          (slots[h].used /\ last'.kept # h)
              => /\ Prefix(arrays', slots'[h].l) = Prefix(arrays, slots[h].l)
                 /\ Fields(maps', slots'[h].l) = Fields(maps, slots[h].l)]_vars

\* C11: every InitLogger call, whatever the configuration (a Path that is
\* empty or names no directory included), returns normally, installs a
\* singleton and sets the configured flag.
C11_InitNeverFails ==
    last.op = "InitLogger"
        => /\ last.outcome = "return"
           /\ isInit /\ mylog.log.ok /\ mylog.cfg = last.cfg

\* the right-biased merge of two field sets
Merged(F, G) ==
    [k \in (DOMAIN F) \cup (DOMAIN G) |-> IF k \in DOMAIN G THEN G[k] ELSE F[k]]

\* the last call was a With* call that gave the caller a child
Forked(op) == last.op = op /\ last.outcome = "return"

\* C12: the child of L.WithFields(G) reports as Fields() the right-biased
\* merge of L's fields and G, so the fields an earlier WithFields call
\* attached are still reported after a later call with other keys.
C12_WithFieldsMerges ==
    [][Forked("WithFields")'
          => Fields(maps', slots'[last'.kept].l)
                 = Merged(Fields(maps, slots[last'.recv].l), last'.given)]_vars

(* ------------------------------------------------------------------ *)
(* Fields.WithFields (src/logger.go:69-71) on its own: two maps of    *)
(* the caller, the receiver in cell 1 and the argument in cell 2      *)
(* ------------------------------------------------------------------ *)
\* every map over the keys and values
AllFieldMaps == UNION { [ks -> FieldVals] : ks \in SUBSET FieldKeys }

\* func (fields Fields) WithFields(newFields Fields) Fields: the result is
\* the argument itself, the same map; nothing is allocated or written
Fields_WithFields(heap, fields, newFields) ==
    [ret |-> newFields, heap |-> heap]

InitMerge ==
    /\ isInit = FALSE
    /\ mylog = ZeroLogger
    /\ slots = [i \in Handles |-> EmptySlot]
    /\ arrays = [a \in 1..NArrays |-> <<>>]
    /\ \E a \in AllFieldMaps, b \in AllFieldMaps :
          maps = [m \in 1..NMaps |-> IF m = 1 THEN a ELSE IF m = 2 THEN b ELSE <<>>]
    /\ alive = TRUE
    /\ last = Blank
    /\ race = NoRace

CallFieldsWithFields ==
    LET r == Fields_WithFields(maps, 1, 2) IN
    /\ maps' = r.heap
    /\ last' = [Blank EXCEPT !.op = "Fields.WithFields", !.ret = r.ret]
    /\ UNCHANGED <<isInit, mylog, slots, arrays, alive, race>>

NextMerge == CallFieldsWithFields

SpecMerge == InitMerge /\ [][NextMerge]_vars

\* C13: a.WithFields(b) returns a new map holding every key of a that b
\* lacks with a's value and every key of b with b's value, and nothing
\* else; a and b are as they were.
C13_MergeIsNewUnion ==
    [][last'.op = "Fields.WithFields"
          => /\ last'.ret \notin {0, 1, 2}
             /\ maps'[last'.ret] = Merged(maps[1], maps[2])
             /\ maps'[1] = maps[1] /\ maps'[2] = maps[2]]_vars

\* C14: the child of L.WithSection(s) reports as Fields() L's fields with
\* the key section set to s, and the Prefix() and GetLevel() of L.
C14_SectionInFields ==
    [][Forked("WithSection")'
          => LET parent == slots[last'.recv].l
                 child == slots'[last'.kept].l
             IN /\ Fields(maps', child)
                       = Merged(Fields(maps, parent), [section |-> last'.name])
                /\ Prefix(arrays', child) = Prefix(arrays, parent)
                /\ GetLevel(child) = GetLevel(parent)]_vars

(* ------------------------------------------------------------------ *)
(* Specification of chains: a copy of the singleton in one handle and *)
(* in the other an instance derived from it by any sequence of        *)
(* WithPrefix, WithSection and WithFields                             *)
(* ------------------------------------------------------------------ *)
RootHandles == {"p"}

DerivedHandles == {"q"}

NextChain ==
    \/ InitLoggerFrom(ForkConfigs, {TRUE})
    \/ GetMyLoggerInto(RootHandles)
    \/ WithPrefixInto(Handles, DerivedHandles, PrefixNames)
    \/ WithSectionInto(Handles, DerivedHandles, SectionNames)
    \/ WithFieldsInto(Handles, DerivedHandles, FieldMaps)

SpecChain == Init /\ [][NextChain]_vars

\* C15: the child of L.WithPrefix(a) reports as Prefix() the dot-join of
\* L's chain followed by a, so that L.WithPrefix(a).WithPrefix(b) reports
\* L's chain followed by a and b; the singleton reports the empty string;
\* the child of WithSection or WithFields reports its parent's Prefix().
C15_PrefixChain ==
    [][/\ Prefix(arrays', mylog') = <<>>
       /\ Forked("WithPrefix")'
             => Prefix(arrays', slots'[last'.kept].l)
                    = Join(SliceElems(arrays, slots[last'.recv].l.prefix)
                               \o <<last'.name>>, ".")
       /\ (Forked("WithPrefix") /\ Forked("WithPrefix")'
              /\ last'.recv = last.kept /\ last.recv # last.kept)
             => Prefix(arrays', slots'[last'.kept].l)
                    = Join(SliceElems(arrays, slots[last.recv].l.prefix)
                               \o <<last.name, last'.name>>, ".")
       /\ (Forked("WithSection")' \/ Forked("WithFields")')
             => Prefix(arrays', slots'[last'.kept].l)
                    = Prefix(arrays, slots[last'.recv].l)]_vars

\* from the root, WithPrefix("x").WithPrefix("y") reports x.y, and a
\* child forked from it by WithSection still does
C15_Witness ==
    /\ Forked("WithSection")
    /\ last.recv = last.kept
    /\ Prefix(arrays, slots[last.kept].l) = <<"x", ".", "y">>
    /\ Prefix(arrays, mylog) = <<>>

\* C16: a Fatal or Fatalf call ends the process and a Panic or Panicf call
\* panics, whether InitLogger has run or not; such a call never returns
\* normally.  (A method on a copy of the unconfigured singleton used after
\* InitLogger is left to C21.)
C16_TerminalCalls ==
    (last.op \in {"Fatal", "Fatalf", "Panic", "Panicf"}
        /\ ~(isInit /\ ~Receiver.log.ok))
        => /\ last.outcome # "return"
           /\ last.op \in {"Fatal", "Fatalf"} => last.outcome = "exit"
           /\ last.op \in {"Panic", "Panicf"} => last.outcome = "panic"

(* ------------------------------------------------------------------ *)
(* SetLevel (src/logger.go:314-317) and the specification of levels:  *)
(* configurations of several levels, instances derived in any way,    *)
(* SetLevel and Trace on them                                         *)
(* ------------------------------------------------------------------ *)
Levels == PanicLevel..TraceLevel

\* a SetLevel that assigns the level to the instance
MyLogger_SetLevel_Assigning(l, level) == [l EXCEPT !.level = level]

\* func (l MyLogger) SetLevel(level Level): returns at once; the instance
\* the caller holds is what it was
MyLogger_SetLevel(l, level) == l

SetLevelOn(R) == \E i \in R, level \in Levels :
    /\ alive
    /\ slots[i].used
    /\ Settle(mylog, [slots EXCEPT ![i].l = MyLogger_SetLevel(@, level)],
              arrays, maps)
    /\ last' = [Blank EXCEPT !.op = "SetLevel", !.recv = i]
    /\ UNCHANGED <<isInit, alive, race>>

LevelConfigs ==
    { c \in LoggerConfig :
        /\ c.Path = <<"/", "tmp">> /\ c.CodeLine = 0
        /\ c.Level \in {<<"t", "r", "a", "c", "e">>, <<"W", "A", "R", "N">>} }

NextLevel ==
    \/ InitLoggerFrom(LevelConfigs, {TRUE})
    \/ GetMyLoggerInto(RootHandles)
    \/ WithPrefixInto(Handles, DerivedHandles, {"x"})
    \/ WithSectionInto(Handles, DerivedHandles, SectionNames)
    \/ WithFieldsInto(Handles, DerivedHandles, {[k |-> "1"]})
    \/ SetLevelOn(Handles)
    \/ MyLogger_Trace(Handles)
    \/ Trace

SpecLevel == Init /\ [][NextLevel]_vars

\* the facade level the InitLogger call that built an instance's root set
RootLevel(l) == MyLevelOf(l.cfg.Level)

\* C17: an instance that comes from an installed singleton by any sequence
\* of WithPrefix, WithSection, WithFields and SetLevel reports as
\* GetLevel() the facade level its root was configured with, whatever
\* SetLevel was given, and its Trace produces a record exactly when that
\* level is Trace.
C17_LevelFixed ==
    /\ \A h \in Handles :
          (slots[h].used /\ slots[h].l.log.ok)
              => GetLevel(slots[h].l) = RootLevel(slots[h].l)
    /\ mylog.log.ok => GetLevel(mylog) = RootLevel(mylog)
    /\ ConfiguredCall({"Trace"})
          => (last.rec # <<>> <=> RootLevel(Receiver) = TraceLevel)

\* SetLevel(Trace) on a derived instance of a singleton configured at warn
\* leaves GetLevel() at Warn
C17_Witness ==
    /\ last.op = "SetLevel" /\ last.recv = "q"
    /\ slots["q"].l.log.ok
    /\ slots["q"].l.prefix.len > 0
    /\ slots["q"].l.cfg.Level = <<"W", "A", "R", "N">>
    /\ GetLevel(slots["q"].l) = WarnLevel

\* the line of logger.go at which each method calls the backend
MethodLine(op) ==
    CASE op = "Print" -> 126 [] op = "Printf" -> 165 [] op = "Println" -> 172
      [] op = "Trace" -> 180 [] op = "Tracef" -> 189 [] op = "Debug" -> 198
      [] op = "Debugf" -> 205 [] op = "Info" -> 212 [] op = "Infof" -> 219
      [] op = "Warn" -> 226 [] op = "Warnf" -> 233 [] op = "Panic" -> 240
      [] op = "Panicf" -> 247 [] op = "Fatal" -> 254 [] op = "Error" -> 261
      [] op = "Errorf" -> 268 [] op = "Fatalf" -> 275

\* the backend severity a tier's functions log at
ZapTier(op) ==
    IF op \in {"Debug", "Debugf"} THEN ZapDebug
    ELSE IF op \in {"Warn", "Warnf"} THEN ZapWarn
    ELSE IF op \in {"Error", "Errorf"} THEN ZapError
    ELSE IF op \in {"Panic", "Panicf"} THEN ZapPanic
    ELSE IF op \in {"Fatal", "Fatalf"} THEN ZapFatal
    ELSE ZapInfo

\* what the method named op does on instance l, called from site
MethodOutput(op, l, format, args, site) ==
    LET line == MethodLine(op) IN
    IF op = "Print" THEN MethodPrintBody(l, args)
    ELSE IF op = "Trace" THEN MethodTraceBody(l, args, line, site)
    ELSE IF op = "Tracef" THEN MethodTracefBody(l, format, args, line, site)
    ELSE IF op \in FormattedOps
         THEN MethodBodyf(l, ZapTier(op), format, args, line, site)
    ELSE MethodBody(l, ZapTier(op), args, line, site)

\* what the last call did
LastOutput ==
    [stdout |-> last.stdout, handed |-> last.handed, rec |-> last.rec,
     outcome |-> last.outcome]

\* C18: a package-level Print, Trace, Debug, Info, Warn, Error, Fatal or
\* Panic, or a formatted variant, does what the method of the same name
\* does on GetMyLogger() with the same arguments from the same call site,
\* before InitLogger and after it.
C18_FunctionIsMethod ==
    PackageCall(EmitOps \ {"Println"})
        => LastOutput = MethodOutput(last.op, mylog, last.format, last.args,
                                     last.site)

(* ------------------------------------------------------------------ *)
(* Specification of one InitLogger call running beside package-level  *)
(* Info calls of another goroutine.  mylog and isInit are plain       *)
(* package variables (src/logger.go:111-114) written and read with no *)
(* synchronisation, so nothing orders a read of the other goroutine   *)
(* after a store of InitLogger: the read observes the stored value or *)
(* the one before it.                                                 *)
(* ------------------------------------------------------------------ *)
\* lines 350-434: the path, the rotation settings, the levels, the core
Race_Assemble == \E cfg \in EmitConfigs :
    /\ alive
    /\ race.w = "idle"
    /\ race' = [race EXCEPT !.w = "assembled", !.cfg = cfg]
    /\ UNCHANGED <<isInit, mylog, slots, arrays, maps, alive, last>>

\* lines 435-440: mylog = MyLogger{...}
Race_StoreSingleton ==
    LET cfg == race.cfg
        fresh == FreeMap
        nl == Assembled(cfg, ChosenPath(cfg, LogPathExists(cfg.Path, TRUE)),
                        fresh)
    IN
    /\ race.w = "assembled"
    /\ Settle(nl, slots, arrays, [maps EXCEPT ![fresh] = <<>>])
    /\ race' = [race EXCEPT !.w = "stored", !.before = mylog]
    /\ UNCHANGED <<isInit, alive, last>>

\* line 441: isInit = true, and InitLogger returns
Race_SetFlag ==
    /\ race.w = "stored"
    /\ isInit' = TRUE
    /\ race' = [race EXCEPT !.w = "returned"]
    /\ last' = [Blank EXCEPT !.op = "InitLogger", !.cfg = race.cfg,
                             !.exists = TRUE, !.warned = TRUE]
    /\ UNCHANGED <<mylog, slots, arrays, maps, alive>>

\* line 508 of Info in the other goroutine: if isInit.  The read observes
\* the variable as it is or as it was before InitLogger wrote it.
Race_InfoReadsFlag == \E seen \in {isInit, FALSE} :
    /\ alive
    /\ race.r \in {"idle", "returned"}
    /\ race' = [race EXCEPT !.r = "tested", !.sawInit = seen]
    /\ UNCHANGED <<isInit, mylog, slots, arrays, maps, alive, last>>

\* lines 509-511: the branch taken on what was read; mylog.log and the
\* copy of mylog that appendCodeInfo receives are two more reads
Race_InfoEmits == \E args \in ArgLists, site \in Sites :
    LET visible == {mylog} \cup
                   (IF race.w \in {"stored", "returned"} THEN {race.before}
                    ELSE {})
    IN \E seenLog \in visible, seenCopy \in visible :
    LET res == IF race.sawInit
               THEN Sugar(seenLog.log, ZapInfo, <<>>,
                          MyLogger_appendCodeInfo(seenCopy, args, 509, site))
               ELSE Stdout(Sprintln(args))
    IN
    /\ race.r = "tested"
    /\ race' = [race EXCEPT !.r = "returned"]
    /\ last' = [Blank EXCEPT !.op = "Info", !.recv = "pkg", !.args = args,
                             !.line = 509, !.site = site,
                             !.stdout = res.stdout, !.rec = res.rec,
                             !.handed = res.handed, !.outcome = res.outcome]
    /\ UNCHANGED <<isInit, mylog, slots, arrays, maps, alive>>

NextRace ==
    \/ Race_Assemble
    \/ Race_StoreSingleton
    \/ Race_SetFlag
    \/ Race_InfoReadsFlag
    \/ Race_InfoEmits

SpecRace == Init /\ [][NextRace]_vars

\* C19: while one InitLogger call runs beside package-level logging calls,
\* isInit = true implies that the singleton's backend is set, and a
\* logging call that has read isInit = true does not use a missing backend.
C19_FlagGuardsBackend ==
    /\ isInit => mylog.log.ok
    /\ (last.op = "Info" /\ race.r = "returned" /\ race.sawInit)
          => last.outcome # "crash"

(* ------------------------------------------------------------------ *)
(* Specification of repeated configuration: InitLogger any number of  *)
(* times with configurations that differ in level, path and tagging,  *)
(* the directory present or absent; copies and forks of the singleton *)
(* kept across the calls; Info and Trace at package level and on the  *)
(* kept instances                                                     *)
(* ------------------------------------------------------------------ *)
ReinitConfigs ==
    { c \in LoggerConfig :
        <<c.Level, c.Path, c.CodeLine>> \in
            { <<<<"t", "r", "a", "c", "e">>, <<"/", "tmp">>, 0>>,
              <<<<"W", "A", "R", "N">>, <<"/", "var", "/", "log", "/">>, 1>>,
              <<<<"W", "A", "R", "N">>, <<>>, 0>> } }

NextReinit ==
    \/ InitLoggerFrom(ReinitConfigs, BOOLEAN)
    \/ GetMyLoggerInto(RootHandles)
    \/ WithPrefixInto(Handles, DerivedHandles, {"x"})
    \/ Info
    \/ Trace
    \/ MyLogger_Info(Handles)
    \/ MyLogger_Trace(Handles)

SpecReinit == Init /\ [][NextReinit]_vars

\* what a caller can see of an instance
Seen(ah, mh, l) ==
    [log |-> l.log, level |-> GetLevel(l), codeLine |-> l.codeLine,
     prefix |-> Prefix(ah, l), fields |-> Fields(mh, l)]

\* C20: InitLogger can run again.  A call that completes leaves the
\* singleton with the level, the sink and the tagging flag of its own
\* configuration, which GetMyLogger() and the package-level functions then
\* use; isInit, once true, stays true, and no emit call made while it is
\* true writes to standard output; an instance the caller kept from an
\* earlier singleton is what it was, backend and level included.
C20_Reconfigured ==
    [][/\ isInit => isInit'
       /\ (last'.op = "InitLogger" /\ last'.outcome = "return")
             => /\ isInit'
                /\ mylog'.cfg = last'.cfg
                /\ GetLevel(mylog') = MyLevelOf(last'.cfg.Level)
                /\ mylog'.log.min = ZapLevelOf(last'.cfg.Level)
                /\ mylog'.log.sink
                       = SinkOf(last'.cfg,
                                TrimSlash(ChosenPath(last'.cfg, last'.exists)))
                /\ mylog'.codeLine = (last'.cfg.CodeLine # 0)
                /\ \A h \in Handles :
                      Seen(arrays', maps', slots'[h].l)
                          = Seen(arrays, maps, slots[h].l)
       /\ last'.op = "GetMyLogger"
             => Seen(arrays', maps', slots'[last'.kept].l)
                    = Seen(arrays, maps, mylog)
       /\ (last'.op \in EmitOps /\ isInit) => last'.stdout = <<>>
       /\ (last'.op \in EmitOps /\ last'.recv = "pkg" /\ last'.rec # <<>>)
             => /\ last'.rec[1].sink = mylog.log.sink
                /\ last'.rec[1].lvl >= ZapLevelOf(mylog.cfg.Level)]_vars

\* a second InitLogger call has replaced a trace singleton by a WARN one
\* while the caller holds an instance forked from the first
C20_Witness ==
    /\ Installed
    /\ last.cfg.Level = <<"W", "A", "R", "N">> /\ last.cfg.CodeLine = 1
    /\ GetLevel(mylog) = WarnLevel /\ mylog.codeLine
    /\ slots["q"].used /\ slots["q"].l.log.ok
    /\ slots["q"].l.prefix.len > 0
    /\ GetLevel(slots["q"].l) = TraceLevel /\ ~slots["q"].l.codeLine

\* C21: an emit method (Print, Debug, Info, Warn, Error or a formatted
\* variant) called on an instance that GetMyLogger() returned before
\* InitLogger ran completes normally, before InitLogger and after it, and
\* does not use a missing backend.
C21_EarlyCopyUsable ==
    (last.op \in {"Print", "Printf", "Debug", "Debugf", "Info", "Infof",
                  "Warn", "Warnf", "Error", "Errorf"}
        /\ last.recv \in Handles
        /\ ~Receiver.log.ok)
        => last.outcome = "return"

(* ------------------------------------------------------------------ *)
(* Specification of the caller's hold on the maps: an instance L made *)
(* by WithFields, instances derived from L by WithPrefix and          *)
(* WithSection, and the caller assigning to the map that Fields()     *)
(* returned (src/logger.go:293-298), which after L = P.WithFields(G)  *)
(* is the map G itself (line 309 stores the reference)                *)
(* ------------------------------------------------------------------ *)
\* m := slots[h].Fields(); m[key] = val, for an instance held in R.
\* Fields() gives the instance's own map, or a new one that nothing else
\* refers to when it has none.
CallerAssigns(R) == \E h \in R, key \in FieldKeys, val \in FieldVals :
    LET l == slots[h].l
        m == Fields(maps, l)
        written == [x \in (DOMAIN m) \cup {key} |->
                       IF x = key THEN val ELSE m[x]]
    IN
    /\ alive
    /\ slots[h].used
    /\ Settle(mylog, slots, arrays,
              IF l.fields = 0 THEN maps ELSE [maps EXCEPT ![l.fields] = written])
    /\ last' = [Blank EXCEPT !.op = "assign", !.recv = h,
                             !.given = [x \in {key} |-> val]]
    /\ UNCHANGED <<isInit, alive, race>>

NextOutside ==
    \/ InitLoggerFrom(ForkConfigs, {TRUE})
    \/ GetMyLoggerInto(RootHandles)
    \/ WithFieldsInto(RootHandles, DerivedHandles, FieldMaps)
    \/ WithPrefixInto(DerivedHandles, RootHandles, {"x"})
    \/ WithSectionInto(DerivedHandles, RootHandles, SectionNames)
    \/ CallerAssigns(DerivedHandles)

SpecOutside == Init /\ [][NextOutside]_vars

\* C22: an assignment by the caller to the map it gave WithFields, or to
\* the map Fields() returned, changes what Fields() returns for no
\* instance: not for L, not for an instance derived from L.
C22_FieldsSealed ==
    [][last'.op = "assign"
          => \A h \in Handles :
                Fields(maps', slots'[h].l) = Fields(maps, slots[h].l)]_vars

====
